---------------------------- MODULE Spec2Model ----------------------------
(***************************************************************************)
(* State-machine model of the TIBCO Data Virtualization driver adapter     *)
(* (server/drivers/tdv/index.js): the Client class (connect, disconnect,   *)
(* runQuery), the module-level runQuery that opens a Client, runs one      *)
(* query and closes it, and the helpers they use.                          *)
(*                                                                         *)
(* Two specifications share the variables:                                 *)
(*   Spec        one module-level runQuery(query, connection) request;     *)
(*   SpecClient  a caller invoking connect and disconnect on one Client    *)
(*               instance in any order, the awaits being interleaving      *)
(*               points.                                                   *)
(***************************************************************************)
EXTENDS Integers, Sequences, FiniteSets, TLC

(***************************************************************************)
(* Bounds of the model.                                                    *)
(***************************************************************************)
\* largest row cap a connection descriptor carries
MaxCap == 2
\* largest number of rows the engine holds for a query
MaxTableRows == 4
\* longest odbcErrors array a driver failure carries
MaxSubErrors == 2
\* Client.connect invocations by the free caller of SpecClient
MaxConnects == 3
\* Client.disconnect invocations by the free caller of SpecClient
MaxDisconnects == 3

(***************************************************************************)
(* JavaScript values.  A number, undefined and NaN are kept apart, because *)
(* undefined + 1 is NaN and neither is a number a caller asked for.        *)
(***************************************************************************)
Num(n) == [t |-> "number", v |-> n]
Undefined == [t |-> "undefined", v |-> 0]
NaN == [t |-> "NaN", v |-> 0]

IsNum(x) == x.t = "number"

\* JS truthiness of a number-or-undefined value: undefined, NaN and 0 are falsy
Truthy(x) == IsNum(x) /\ x.v # 0

\* JS x + 1
PlusOne(x) == IF IsNum(x) THEN Num(x.v + 1) ELSE NaN

\* this.client = null
NULL == 0

(***************************************************************************)
(* Errors.  An error has a message and possibly an odbcErrors array of     *)
(* sub-error messages (isOdbc says Array.isArray(error.odbcErrors)).       *)
(***************************************************************************)
Error(m) == [message |-> m, isOdbc |-> FALSE, odbcErrors |-> <<>>]
OdbcError(m, subs) == [message |-> m, isOdbc |-> TRUE, odbcErrors |-> subs]
NoError == Error("")

\* reading .message of undefined: error.odbcErrors[0] of an empty array
TypeErrorMessageOfUndefined ==
    Error("Cannot read properties of undefined (reading 'message')")
\* calling .query on this.client = null
TypeErrorQueryOfNull == Error("Cannot read properties of null (reading 'query')")

Messages == {"auth failed", "retry later"}

SeqsUpTo(S, n) == UNION {[1..k -> S] : k \in 0..n}

\* what the native driver can raise: a plain error, or one carrying odbcErrors
DriverErrors ==
    {Error("driver failure")}
    \cup {OdbcError("[odbc] Error", subs) : subs \in SeqsUpTo(Messages, MaxSubErrors)}

(***************************************************************************)
(* Sequence helpers: Array.prototype.join, map, filter as the code uses    *)
(* them.                                                                   *)
(***************************************************************************)
RECURSIVE Join(_, _)
Join(strs, sep) ==
    IF Len(strs) = 0 THEN ""
    ELSE IF Len(strs) = 1 THEN strs[1]
    ELSE strs[1] \o sep \o Join(Tail(strs), sep)

(***************************************************************************)
(* Text.  A string the code takes apart (the strategy list) is a sequence  *)
(* of one-character strings; a query is a sequence of tokens, so that      *)
(* String.prototype.includes is a search and the limiter's clause is       *)
(* something the engine has to parse back.                                 *)
(***************************************************************************)
Upper == <<"A", "B", "C", "D", "E", "F", "G", "H", "I", "J", "K", "L", "M",
           "N", "O", "P", "Q", "R", "S", "T", "U", "V", "W", "X", "Y", "Z">>
Lower == <<"a", "b", "c", "d", "e", "f", "g", "h", "i", "j", "k", "l", "m",
           "n", "o", "p", "q", "r", "s", "t", "u", "v", "w", "x", "y", "z">>

\* a map that forgets to lower-case
ToLowerCaseForgotten(cs) == cs

\* String.prototype.toLowerCase, one character
ToLowerChar(c) ==
    IF \E i \in 1..Len(Upper) : Upper[i] = c
    THEN Lower[CHOOSE i \in 1..Len(Upper) : Upper[i] = c]
    ELSE c

ToLowerCase(cs) == [i \in 1..Len(cs) |-> ToLowerChar(cs[i])]

IsSpace(c) == c \in {" ", "\t", "\n"}

RECURSIVE TrimStart(_)
TrimStart(cs) ==
    IF cs # <<>> /\ IsSpace(Head(cs)) THEN TrimStart(Tail(cs)) ELSE cs

RECURSIVE TrimEnd(_)
TrimEnd(cs) ==
    IF cs # <<>> /\ IsSpace(cs[Len(cs)])
    THEN TrimEnd(SubSeq(cs, 1, Len(cs) - 1))
    ELSE cs

\* String.prototype.trim
Trim(cs) == TrimEnd(TrimStart(cs))

\* String.prototype.split(','): "" splits into one empty string
RECURSIVE SplitFrom(_, _, _)
SplitFrom(cs, cur, out) ==
    IF cs = <<>> THEN Append(out, cur)
    ELSE IF Head(cs) = "," THEN SplitFrom(Tail(cs), <<>>, Append(out, cur))
    ELSE SplitFrom(Tail(cs), Append(cur, Head(cs)), out)

Split(cs) == SplitFrom(cs, <<>>, <<>>)

\* the characters as one string
Str(cs) == Join(cs, "")

\* the strategy list as the caller passes it: a string, or nothing
Text(cs) == [defined |-> TRUE, chars |-> cs]
NoText == [defined |-> FALSE, chars |-> <<>>]

(***************************************************************************)
(* cleanAndValidateLimitStrategies                                         *)
(***************************************************************************)
allowed == <<"fetch">>

NotEmpty(s) == s # ""

\* (limitStrategies || '').split(',').map(trim, toLowerCase).filter(s !== '')
CleanStrategies(limitStrategies) ==
    LET text == IF limitStrategies.defined THEN limitStrategies.chars ELSE <<>>
        parts == Split(text)
        mapped == [i \in 1..Len(parts) |-> Str(ToLowerCase(Trim(parts[i])))]
    IN  SelectSeq(mapped, NotEmpty)

IsAllowed(strategy) == \E i \in 1..Len(allowed) : allowed[i] = strategy

NotAllowedError(strategy) ==
    LET quoted == [i \in 1..Len(allowed) |-> "\"" \o allowed[i] \o "\""]
    IN  Error("Limit strategy \"" \o strategy \o "\" not allowed. Must be one of "
              \o Join(quoted, ", "))

\* returns the cleaned list, or throws for the first entry not allowed
cleanAndValidateLimitStrategies(limitStrategies) ==
    LET strategies == CleanStrategies(limitStrategies)
        bad == {i \in 1..Len(strategies) : ~IsAllowed(strategies[i])}
    IN  IF bad = {}
        THEN [threw |-> FALSE, strategies |-> strategies, error |-> NoError]
        ELSE LET first == CHOOSE i \in bad : \A j \in bad : i <= j
             IN  [threw |-> TRUE, strategies |-> <<>>,
                  error |-> NotAllowedError(strategies[first])]

\* Client.runQuery: const limit_strategies = 'fetch'
limit_strategies == Text(<<"f", "e", "t", "c", "h">>)

(***************************************************************************)
(* Queries, the rewriter and the engine.                                   *)
(***************************************************************************)
SystemCatalog == "/services/databases/system/ALL_COLUMNS"

\* the schema query of getTDVSchemaSql, and a caller's query on a table T
SchemaQuery == <<"SELECT", "column_name", "FROM", SystemCatalog>>
TableQuery == <<"SELECT", "*", "FROM", "T">>
Queries == {TableQuery, SchemaQuery}

\* cleanedQuery.includes(needle)
Includes(query, needle) == \E i \in 1..Len(query) : query[i] = needle

\* `${limitNumber}` in the clause the limiter writes
NumberText(x) == IF IsNum(x) THEN ToString(x.v) ELSE "NaN"

\* sqlLimiter.limit(query, ['fetch'], limitNumber): the query bounded by a
\* FETCH FIRST clause.  typeof NaN is 'number', so NaN is written as it is.
SqlLimit(query, strategies, limitNumber) ==
    query \o <<"FETCH", "FIRST", NumberText(limitNumber), "ROWS", "ONLY">>

\* resolvePositiveNumber(override, default): the first positive number of the
\* two, or nothing
IsPositive(x) == IsNum(x) /\ x.v > 0
resolvePositiveNumber(a, b) ==
    IF IsPositive(a) THEN a ELSE IF IsPositive(b) THEN b ELSE Undefined

\* The engine reading the clause back.
HasFetch(q) == Len(q) >= 5 /\ q[Len(q) - 4] = "FETCH" /\ q[Len(q) - 3] = "FIRST"
FetchText(q) == q[Len(q) - 2]
FetchParses(q) == \E n \in 0..(MaxCap + 2) : ToString(n) = FetchText(q)
FetchCount(q) == CHOOSE n \in 0..(MaxCap + 2) : ToString(n) = FetchText(q)

\* a row-limiting clause that is no number is a syntax error
BadFetch(q) == HasFetch(q) /\ ~FetchParses(q)
SyntaxError == OdbcError("[odbc] Error executing the sql statement",
                         <<"syntax error in FETCH clause">>)

Min(a, b) == IF a <= b THEN a ELSE b

\* the rows of a table, in the order the engine yields them
TableRows(n) == [i \in 1..n |-> i]

\* what the engine yields for q over a table of n rows; an engine that honours
\* the clause stops at its count
EngineRows(q, n, honours) ==
    IF HasFetch(q) /\ honours
    THEN TableRows(Min(n, FetchCount(q)))
    ELSE TableRows(n)

(***************************************************************************)
(* Results.  queryResult is what the driver resolves with: an array of     *)
(* rows with a columns property, or something without column metadata.     *)
(***************************************************************************)
Shapes == {"tabular", "null", "nocolumns", "zerocolumns"}
DriverResult(shape, rows) == [shape |-> shape, rows |-> rows]

\* {rows, incomplete}; {rows: []} carries no incomplete property
QueryResult(rows, incomplete) ==
    [rows |-> rows, hasIncomplete |-> TRUE, incomplete |-> incomplete]
RowsOnly == [rows |-> <<>>, hasIncomplete |-> FALSE, incomplete |-> FALSE]

\* a test that only catches a missing result
NoColumnsOnlyNull(queryResult) == queryResult.shape = "null"

\* !queryResult || !queryResult.columns || queryResult.columns.length === 0
NoColumns(queryResult) == queryResult.shape # "tabular"

\* a comparison that lets one row too many through
BelowCapOrAt(len, maxRows) == len <= maxRows.v

\* rows.length < maxRows
BelowCap(len, maxRows) == len < maxRows.v

\* the exemption flag read the wrong way round
CapAppliesInverted(checkMaxRows, maxRows) == ~checkMaxRows /\ Truthy(maxRows)

\* checkMaxRows && maxRows
CapApplies(checkMaxRows, maxRows) == checkMaxRows /\ Truthy(maxRows)

\* the for loop over queryResult: acc is {rows, incomplete} so far
RECURSIVE PushRows(_, _, _, _)
PushRows(input, acc, checkMaxRows, maxRows) ==
    IF input = <<>> THEN acc
    ELSE LET row == Head(input)
             next ==
                 IF CapApplies(checkMaxRows, maxRows)
                 THEN IF BelowCap(Len(acc.rows), maxRows)
                      THEN [acc EXCEPT !.rows = Append(@, row)]
                      ELSE [acc EXCEPT !.incomplete = TRUE]
                 ELSE [acc EXCEPT !.rows = Append(@, row)]
         IN  PushRows(Tail(input), next, checkMaxRows, maxRows)

\* the body of the try of Client.runQuery after the driver resolved
Materialize(queryResult, checkMaxRows, maxRows) ==
    IF NoColumns(queryResult) THEN RowsOnly
    ELSE PushRows(queryResult.rows, QueryResult(<<>>, FALSE), checkMaxRows, maxRows)

(***************************************************************************)
(* Error normalisation.                                                    *)
(***************************************************************************)
\* the catch of Client.connect: the first sub-error's message
NormalizeConnectError(error) ==
    IF error.isOdbc
    THEN IF Len(error.odbcErrors) = 0
         THEN TypeErrorMessageOfUndefined
         ELSE Error(error.odbcErrors[1])
    ELSE error

\* a query-time catch that keeps the first message only, as connect does
NormalizeQueryErrorFirstOnly(error) ==
    IF error.isOdbc /\ Len(error.odbcErrors) > 0
    THEN Error(error.odbcErrors[1])
    ELSE error

\* the catch of Client.runQuery: the sub-errors' messages joined
NormalizeQueryError(error) ==
    IF error.isOdbc
    THEN Error(Join(error.odbcErrors, "; "))
    ELSE error

(***************************************************************************)
(* The connection descriptor and the connection string.                    *)
(***************************************************************************)
\* odbc_driver_path, resolved once when the module is loaded
odbc_driver_path == "/drivers/linux/libcomposite86_x64.so"

\* an absent field of the descriptor is the empty string (falsy, as undefined)
Absent == ""

getConnection_string(database, host, port, domain) ==
    "Driver=" \o odbc_driver_path \o ";host=" \o host \o ";port=" \o port
    \o ";datasource=" \o database \o ";domain=" \o domain

DefaultPort == 9401

\* a connect that adds the password only beside a user id
ConnectionStringPwdWithUid(c) ==
    LET domain == IF c.domain # Absent THEN c.domain ELSE "composite"
        host == IF c.host # Absent THEN c.host ELSE "localhost"
        port == IF c.port # Absent THEN c.port ELSE ToString(9401)
        base == getConnection_string(c.database, host, port, domain)
    IN  IF c.username # Absent
        THEN IF c.password # Absent
             THEN base \o ";Uid=" \o c.username \o ";Pwd=" \o c.password
             ELSE base \o ";Uid=" \o c.username
        ELSE base

\* the string Client.connect hands to the driver
ConnectionString(c) ==
    LET domain == IF c.domain # Absent THEN c.domain ELSE "composite"
        host == IF c.host # Absent THEN c.host ELSE "localhost"
        port == IF c.port # Absent THEN c.port ELSE ToString(DefaultPort)
        base == getConnection_string(c.database, host, port, domain)
        withUid == IF c.username # Absent THEN base \o ";Uid=" \o c.username ELSE base
    IN  IF c.password # Absent THEN withUid \o ";Pwd=" \o c.password ELSE withUid

\* what a descriptor carries as a row cap: nothing, or a number (0 is no cap)
CapInputs == {Undefined} \cup {Num(n) : n \in 0..MaxCap}

Descriptor(user, pwd, override, default) ==
    [host |-> Absent, port |-> Absent, domain |-> Absent, database |-> "db1",
     username |-> user, password |-> pwd,
     maxrows_override |-> override, maxRows |-> default]

\* the descriptors of the requests: with and without credentials, every cap
Connections ==
    {Descriptor(cred[1], cred[2], o, d) :
        cred \in {<<Absent, Absent>>, <<"user", "secret">>},
        o \in CapInputs, d \in CapInputs}

(***************************************************************************)
(* State.                                                                  *)
(***************************************************************************)
VARIABLES
    \* the request's inputs and the engine's table
    connection, query, tableRows,
    \* the Client: this.client, and the calls of its methods that are awaiting
    \* the driver (connecting: tdv.connect calls; closing: the handles whose
    \* close() is in flight; querying: a client.query call)
    client, connecting, closing, querying,
    \* locals of Client.runQuery that live across its await
    maxRows, checkMaxRows,
    \* the outcome of the Client method that completed last (status "none"
    \* while the call is awaiting the driver)
    ret,
    \* the driver: the sessions it holds open, and how many it ever opened
    sessions, opened,
    \* the frame of the module-level runQuery: where it is, the result or error
    \* it holds, and what it returned or raised
    pc, primary, outcome,
    \* what happened so far
    connectInvocations, connectCalls, cn, driverConnectError,
    disconnectInvocations, closeCalls, closeErrorsLogged,
    queryCalls, sentQuery, limiterCaps, driverAnswer, driverQueryError,
    \* a call of cleanAndValidateLimitStrategies on its own: its argument and
    \* what it returned or threw
    limitStrategies, validated

inputVars == <<connection, query, tableRows>>
clientVars == <<client, connecting, closing, querying, maxRows, checkMaxRows, ret>>
driverVars == <<sessions, opened>>
frameVars == <<pc, primary, outcome>>
connectHist == <<connectInvocations, connectCalls, cn, driverConnectError>>
disconnectHist == <<disconnectInvocations, closeCalls, closeErrorsLogged>>
queryHist == <<queryCalls, sentQuery, limiterCaps, driverAnswer, driverQueryError>>
validatorVars == <<limitStrategies, validated>>
vars == <<inputVars, clientVars, driverVars, frameVars,
          connectHist, disconnectHist, queryHist, validatorVars>>

(***************************************************************************)
(* Outcomes of calls.                                                      *)
(***************************************************************************)
Void == RowsOnly
Returned(result) == [status |-> "returned", result |-> result, error |-> NoError]
Raised(error) == [status |-> "raised", result |-> Void, error |-> error]
Pending == [status |-> "none", result |-> Void, error |-> NoError]
Ret(op, o) == [op |-> op, status |-> o.status, result |-> o.result, error |-> o.error]

UsageError == Error("Client already connected")
LimiterError == Error("sql-limiter could not rewrite the query")
CloseError == Error("close failed")

(***************************************************************************)
(* Client.connect                                                          *)
(***************************************************************************)
\* a guard that refuses every connect after the first
AlreadyConnectedEver(handle) == handle # NULL \/ connectInvocations > 0

\* if (this.client)
AlreadyConnected(handle) == handle # NULL

\* up to the await of tdv.connect(cn)
ClientConnectBegin ==
    /\ connectInvocations' = connectInvocations + 1
    /\ IF AlreadyConnected(client)
       THEN /\ ret' = Ret("connect", Raised(UsageError))
            /\ UNCHANGED <<connecting, connectCalls, cn>>
       ELSE /\ cn' = ConnectionString(connection)
            /\ connecting' = connecting + 1
            /\ connectCalls' = connectCalls + 1
            /\ ret' = Ret("connect", Pending)
    /\ UNCHANGED <<client, closing, querying, maxRows, checkMaxRows>>
    /\ UNCHANGED <<driverVars, driverConnectError, disconnectHist, queryHist>>

\* tdv.connect resolved with a new session: this.client = the handle
ClientConnectResolve ==
    /\ connecting > 0
    /\ connecting' = connecting - 1
    /\ opened' = opened + 1
    /\ sessions' = sessions \cup {opened + 1}
    /\ client' = opened + 1
    /\ ret' = Ret("connect", Returned(Void))
    /\ UNCHANGED <<closing, querying, maxRows, checkMaxRows>>
    /\ UNCHANGED <<connectHist, disconnectHist, queryHist>>

\* a catch of connect that drops the handle the Client holds
ClientConnectRejectClears(error) ==
    /\ connecting > 0
    /\ connecting' = connecting - 1
    /\ driverConnectError' = error
    /\ ret' = Ret("connect", Raised(NormalizeConnectError(error)))
    /\ client' = NULL
    /\ UNCHANGED <<closing, querying, maxRows, checkMaxRows>>
    /\ UNCHANGED <<driverVars, connectInvocations, connectCalls, cn>>
    /\ UNCHANGED <<disconnectHist, queryHist>>

\* tdv.connect rejected: the catch of connect
ClientConnectReject(error) ==
    /\ connecting > 0
    /\ connecting' = connecting - 1
    /\ driverConnectError' = error
    /\ ret' = Ret("connect", Raised(NormalizeConnectError(error)))
    /\ UNCHANGED <<client, closing, querying, maxRows, checkMaxRows>>
    /\ UNCHANGED <<driverVars, connectInvocations, connectCalls, cn>>
    /\ UNCHANGED <<disconnectHist, queryHist>>

(***************************************************************************)
(* Client.disconnect                                                       *)
(***************************************************************************)
\* a disconnect that calls close without looking at the handle
HasCloseUnguarded(handle) == TRUE

\* a catch that raises the close error again
DisconnectCatchRethrow(error) == [logged |-> 1, outcome |-> Raised(error)]

\* if (this.client && this.client.close): every handle of the driver can close
HasClose(handle) == handle # NULL

\* the catch of disconnect: the error is logged and not raised again
DisconnectCatch(error) == [logged |-> 1, outcome |-> Returned(Void)]

\* up to the await of this.client.close(); with no handle there is no await
\* and the call runs to its end
ClientDisconnectBegin ==
    /\ disconnectInvocations' = disconnectInvocations + 1
    /\ IF HasClose(client)
       THEN /\ closing' = Append(closing, client)
            /\ closeCalls' = closeCalls + 1
            /\ ret' = Ret("disconnect", Pending)
            /\ UNCHANGED client
       ELSE /\ client' = NULL
            /\ ret' = Ret("disconnect", Returned(Void))
            /\ UNCHANGED <<closing, closeCalls>>
    /\ UNCHANGED <<connecting, querying, maxRows, checkMaxRows>>
    /\ UNCHANGED <<driverVars, connectHist, closeErrorsLogged, queryHist>>

\* the close() of closing[i] settled; a close that failed leaves the session
\* open at the driver.  Then this.client = null.
ClientCloseSettle(i, failed) ==
    /\ i \in 1..Len(closing)
    /\ closing' = [k \in 1..(Len(closing) - 1) |->
                      IF k < i THEN closing[k] ELSE closing[k + 1]]
    /\ IF failed
       THEN /\ closeErrorsLogged' = closeErrorsLogged + DisconnectCatch(CloseError).logged
            /\ ret' = Ret("disconnect", DisconnectCatch(CloseError).outcome)
            /\ UNCHANGED sessions
       ELSE /\ sessions' = sessions \ {closing[i]}
            /\ ret' = Ret("disconnect", Returned(Void))
            /\ UNCHANGED closeErrorsLogged
    /\ client' = IF ret'.status = "raised" THEN client ELSE NULL
    /\ UNCHANGED <<connecting, querying, maxRows, checkMaxRows, opened>>
    /\ UNCHANGED <<connectHist, disconnectInvocations, closeCalls, queryHist>>

(***************************************************************************)
(* Client.runQuery                                                         *)
(***************************************************************************)
\* a runQuery with no exemption
CheckMaxRowsAlways(q) == TRUE

\* let checkMaxRows = true; if (cleanedQuery.includes(...)) checkMaxRows = false
CheckMaxRows(q) == ~Includes(q, SystemCatalog)

\* a limiter asked for the cap itself
LimiterCapNoOverAsk(resolved) == resolved

\* the cap handed to the limiter
LimiterCap(resolved) == PlusOne(resolved)

\* up to the await of this.client.query(cleanedQuery).  The limiter may
\* refuse a text (limiterThrows); that and a strategy that is not allowed
\* are raised before the try.
ClientRunQueryBegin(limiterThrows) ==
    LET resolved == resolvePositiveNumber(connection.maxrows_override,
                                          connection.maxRows)
        cleaned == cleanAndValidateLimitStrategies(limit_strategies)
        check == CheckMaxRows(query)
        rewrite == ~cleaned.threw /\ check /\ Len(cleaned.strategies) # 0
        cleanedQuery ==
            IF rewrite
            THEN SqlLimit(query, cleaned.strategies, LimiterCap(resolved))
            ELSE query
    IN  /\ maxRows' = resolved
        /\ checkMaxRows' = check
        /\ limiterCaps' = IF rewrite
                          THEN Append(limiterCaps, LimiterCap(resolved))
                          ELSE limiterCaps
        /\ IF cleaned.threw
           THEN /\ ret' = Ret("runQuery", Raised(cleaned.error))
                /\ UNCHANGED <<querying, queryCalls, sentQuery>>
           ELSE IF rewrite /\ limiterThrows
           THEN /\ ret' = Ret("runQuery", Raised(LimiterError))
                /\ UNCHANGED <<querying, queryCalls, sentQuery>>
           ELSE IF client = NULL
           THEN /\ ret' = Ret("runQuery",
                              Raised(NormalizeQueryError(TypeErrorQueryOfNull)))
                /\ UNCHANGED <<querying, queryCalls, sentQuery>>
           ELSE /\ querying' = TRUE
                /\ queryCalls' = queryCalls + 1
                /\ sentQuery' = cleanedQuery
                /\ ret' = Ret("runQuery", Pending)
        /\ UNCHANGED <<client, connecting, closing>>
        /\ UNCHANGED <<driverVars, connectHist, disconnectHist>>
        /\ UNCHANGED <<driverAnswer, driverQueryError>>

\* the driver resolved: the rest of the try
ClientQueryResolve(shape, honours) ==
    /\ querying
    /\ ~BadFetch(sentQuery)
    /\ querying' = FALSE
    /\ driverAnswer' =
           DriverResult(shape,
                        IF shape = "tabular"
                        THEN EngineRows(sentQuery, tableRows, honours)
                        ELSE <<>>)
    /\ ret' = Ret("runQuery",
                  Returned(Materialize(driverAnswer', checkMaxRows, maxRows)))
    /\ UNCHANGED <<client, connecting, closing, maxRows, checkMaxRows>>
    /\ UNCHANGED <<driverVars, connectHist, disconnectHist>>
    /\ UNCHANGED <<queryCalls, sentQuery, limiterCaps, driverQueryError>>

\* what the driver can reject the query in flight with
QueryFailures == DriverErrors \cup (IF BadFetch(sentQuery) THEN {SyntaxError} ELSE {})

\* the driver rejected: the catch of runQuery
ClientQueryReject(error) ==
    /\ querying
    /\ error \in QueryFailures
    /\ querying' = FALSE
    /\ driverQueryError' = error
    /\ ret' = Ret("runQuery", Raised(NormalizeQueryError(error)))
    /\ UNCHANGED <<client, connecting, closing, maxRows, checkMaxRows>>
    /\ UNCHANGED <<driverVars, connectHist, disconnectHist>>
    /\ UNCHANGED <<queryCalls, sentQuery, limiterCaps, driverAnswer>>

(***************************************************************************)
(* The module-level runQuery(query, connection).                           *)
(*   pc = "connect"          await client.connect()                        *)
(*        "runQuery"         try { result = await client.runQuery(query)   *)
(*        "tryDisconnect"          await client.disconnect(); return result*)
(*        "catchDisconnect"  catch (error) { await client.disconnect();    *)
(*                                           throw error }                 *)
(*        "done"             returned or raised                            *)
(*        "free"             no request: the Client is driven by a caller  *)
(***************************************************************************)
Frame(at, saved, out) == [pc |-> at, primary |-> saved, outcome |-> out]

\* a runQuery whose catch raises again without disconnecting
ContinueNoCatchDisconnect(at, r, saved) ==
    CASE at = "connect" ->
           IF r.status = "raised"
           THEN Frame("done", saved, Raised(r.error))
           ELSE Frame("runQuery", saved, Pending)
      [] at = "runQuery" ->
           IF r.status = "raised"
           THEN Frame("done", Raised(r.error), Raised(r.error))
           ELSE Frame("tryDisconnect", Returned(r.result), Pending)
      [] at = "tryDisconnect" ->
           IF r.status = "raised"
           THEN Frame("done", Raised(r.error), Raised(r.error))
           ELSE Frame("done", saved, Returned(saved.result))
      [] OTHER -> Frame(at, saved, Pending)

\* a runQuery that returns the result without disconnecting
ContinueReturnBeforeDisconnect(at, r, saved) ==
    CASE at = "connect" ->
           IF r.status = "raised"
           THEN Frame("done", saved, Raised(r.error))
           ELSE Frame("runQuery", saved, Pending)
      [] at = "runQuery" ->
           IF r.status = "raised"
           THEN Frame("catchDisconnect", Raised(r.error), Pending)
           ELSE Frame("done", Returned(r.result), Returned(r.result))
      [] at = "catchDisconnect" ->
           IF r.status = "raised"
           THEN Frame("done", saved, Raised(r.error))
           ELSE Frame("done", saved, Raised(saved.error))
      [] OTHER -> Frame(at, saved, Pending)

\* a runQuery that connects again when connect failed
ContinueRetryConnect(at, r, saved) ==
    CASE at = "connect" ->
           IF r.status = "raised"
           THEN Frame("connect", saved, Pending)
           ELSE Frame("runQuery", saved, Pending)
      [] at = "runQuery" ->
           IF r.status = "raised"
           THEN Frame("catchDisconnect", Raised(r.error), Pending)
           ELSE Frame("tryDisconnect", Returned(r.result), Pending)
      [] at = "tryDisconnect" ->
           IF r.status = "raised"
           THEN Frame("catchDisconnect", Raised(r.error), Pending)
           ELSE Frame("done", saved, Returned(saved.result))
      [] at = "catchDisconnect" ->
           IF r.status = "raised"
           THEN Frame("done", saved, Raised(r.error))
           ELSE Frame("done", saved, Raised(saved.error))
      [] OTHER -> Frame(at, saved, Pending)

\* where runQuery goes when the call it awaited at `at` completed with r,
\* holding `saved` (the result of the try, or the error of the catch)
Continue(at, r, saved) ==
    CASE at = "connect" ->
           IF r.status = "raised"
           THEN Frame("done", saved, Raised(r.error))
           ELSE Frame("runQuery", saved, Pending)
      [] at = "runQuery" ->
           IF r.status = "raised"
           THEN Frame("catchDisconnect", Raised(r.error), Pending)
           ELSE Frame("tryDisconnect", Returned(r.result), Pending)
      [] at = "tryDisconnect" ->
           IF r.status = "raised"
           THEN Frame("catchDisconnect", Raised(r.error), Pending)
           ELSE Frame("done", saved, Returned(saved.result))
      [] at = "catchDisconnect" ->
           IF r.status = "raised"
           THEN Frame("done", saved, Raised(r.error))
           ELSE Frame("done", saved, Raised(saved.error))
      [] OTHER -> Frame(at, saved, Pending)

\* the frame after a step of the Client: it moves when the awaited call completed
Advance ==
    IF pc \in {"free", "done"} \/ ret'.status = "none"
    THEN UNCHANGED frameVars
    ELSE LET f == Continue(pc, ret', primary)
         IN  /\ pc' = f.pc
             /\ primary' = f.primary
             /\ outcome' = f.outcome

\* no call of the frame is awaiting the driver
Ready == ret.status # "none"

ReqConnect ==
    /\ pc = "connect" /\ Ready
    /\ ClientConnectBegin
    /\ Advance
    /\ UNCHANGED <<inputVars, validatorVars>>

ReqRunQuery ==
    /\ pc = "runQuery" /\ Ready
    /\ \E limiterThrows \in BOOLEAN : ClientRunQueryBegin(limiterThrows)
    /\ Advance
    /\ UNCHANGED <<inputVars, validatorVars>>

ReqDisconnect ==
    /\ pc \in {"tryDisconnect", "catchDisconnect"} /\ Ready
    /\ ClientDisconnectBegin
    /\ Advance
    /\ UNCHANGED <<inputVars, validatorVars>>

(***************************************************************************)
(* The driver settling a call in flight.                                   *)
(***************************************************************************)
ConnectResolve ==
    /\ ClientConnectResolve
    /\ Advance
    /\ UNCHANGED <<inputVars, validatorVars>>

ConnectReject ==
    /\ \E error \in DriverErrors : ClientConnectReject(error)
    /\ Advance
    /\ UNCHANGED <<inputVars, validatorVars>>

QueryResolve ==
    /\ \E shape \in Shapes, honours \in BOOLEAN : ClientQueryResolve(shape, honours)
    /\ Advance
    /\ UNCHANGED <<inputVars, validatorVars>>

QueryReject ==
    /\ \E error \in QueryFailures : ClientQueryReject(error)
    /\ Advance
    /\ UNCHANGED <<inputVars, validatorVars>>

CloseSettle ==
    /\ \E i \in 1..Len(closing), failed \in BOOLEAN : ClientCloseSettle(i, failed)
    /\ Advance
    /\ UNCHANGED <<inputVars, validatorVars>>

(***************************************************************************)
(* A caller driving one Client instance directly.                          *)
(***************************************************************************)
CallConnect ==
    /\ pc = "free"
    /\ connectInvocations < MaxConnects
    /\ ClientConnectBegin
    /\ UNCHANGED <<inputVars, validatorVars, frameVars>>

CallDisconnect ==
    /\ pc = "free"
    /\ disconnectInvocations < MaxDisconnects
    /\ ClientDisconnectBegin
    /\ UNCHANGED <<inputVars, validatorVars, frameVars>>

(***************************************************************************)
(* Specifications.                                                         *)
(***************************************************************************)
\* new Client(connection): this.client = null, nothing called yet
NewClient ==
    /\ client = NULL
    /\ connecting = 0
    /\ closing = <<>>
    /\ querying = FALSE
    /\ maxRows = Undefined
    /\ checkMaxRows = TRUE
    /\ ret = Ret("new", Returned(Void))
    /\ sessions = {}
    /\ opened = 0
    /\ primary = Pending
    /\ outcome = Pending
    /\ connectInvocations = 0
    /\ connectCalls = 0
    /\ cn = ""
    /\ driverConnectError = NoError
    /\ disconnectInvocations = 0
    /\ closeCalls = 0
    /\ closeErrorsLogged = 0
    /\ queryCalls = 0
    /\ sentQuery = <<>>
    /\ limiterCaps = <<>>
    /\ driverAnswer = DriverResult("null", <<>>)
    /\ driverQueryError = NoError

\* cleanAndValidateLimitStrategies is not being called on its own
NotValidated == [threw |-> FALSE, strategies |-> <<>>, error |-> NoError]
ValidatorIdle == limitStrategies = NoText /\ validated = NotValidated

\* a request: any query, any descriptor, any table
Init ==
    /\ ValidatorIdle
    /\ connection \in Connections
    /\ query \in Queries
    /\ tableRows \in 0..MaxTableRows
    /\ pc = "connect"
    /\ NewClient

Next ==
    \/ ReqConnect
    \/ ConnectResolve
    \/ ConnectReject
    \/ ReqRunQuery
    \/ QueryResolve
    \/ QueryReject
    \/ ReqDisconnect
    \/ CloseSettle

Spec == Init /\ [][Next]_vars

\* one Client of one descriptor, and a caller
InitClient ==
    /\ ValidatorIdle
    /\ connection \in {Descriptor(Absent, Absent, Undefined, Num(MaxCap)),
                       Descriptor("user", "secret", Undefined, Num(MaxCap))}
    /\ query = TableQuery
    /\ tableRows = 0
    /\ pc = "free"
    /\ NewClient

NextClient ==
    \/ CallConnect
    \/ ConnectResolve
    \/ ConnectReject
    \/ CallDisconnect
    \/ CloseSettle

SpecClient == InitClient /\ [][NextClient]_vars

(***************************************************************************)
(* A caller connecting one Client, for every descriptor: each of host,     *)
(* port, domain, username and password given or absent.                    *)
(***************************************************************************)
AnyDescriptor ==
    {[host |-> h, port |-> p, domain |-> dm, database |-> "db1",
      username |-> u, password |-> w,
      maxrows_override |-> Undefined, maxRows |-> Num(MaxCap)] :
        h \in {Absent, "tdv.example.org"}, p \in {Absent, "9402"},
        dm \in {Absent, "ldap"}, u \in {Absent, "user"},
        w \in {Absent, "secret"}}

InitConnect ==
    /\ ValidatorIdle
    /\ connection \in AnyDescriptor
    /\ query = TableQuery
    /\ tableRows = 0
    /\ pc = "free"
    /\ NewClient

NextConnect ==
    \/ CallConnect
    \/ ConnectResolve
    \/ ConnectReject

SpecConnect == InitConnect /\ [][NextConnect]_vars

(***************************************************************************)
(* cleanAndValidateLimitStrategies called on its own, on a list written    *)
(* from entries separated by commas.                                       *)
(***************************************************************************)
\* most entries a list is written from
MaxEntries == 3

\* entries as a caller may write them: the allowed strategy in three
\* spellings, two entries that are empty once trimmed, two that are not allowed
StrategyEntries ==
    {<<"f", "e", "t", "c", "h">>,
     <<" ", "F", "e", "t", "c", "h", " ">>,
     <<"F", "E", "T", "C", "H">>,
     <<>>,
     <<" ">>,
     <<"l", "i", "m", "i", "t">>,
     <<"T", "O", "P", "\t">>}

\* the entries written as one comma-separated string
RECURSIVE CommaSeparated(_)
CommaSeparated(es) ==
    IF es = <<>> THEN <<>>
    ELSE IF Len(es) = 1 THEN es[1]
    ELSE es[1] \o <<",">> \o CommaSeparated(Tail(es))

\* the arguments of the call: nothing, or a list of up to MaxEntries entries
StrategyInputs ==
    {NoText} \cup {Text(CommaSeparated(es)) : es \in SeqsUpTo(StrategyEntries, MaxEntries)}

Validate ==
    /\ pc = "validate"
    /\ validated' = cleanAndValidateLimitStrategies(limitStrategies)
    /\ pc' = "validated"
    /\ UNCHANGED <<inputVars, clientVars, driverVars, primary, outcome>>
    /\ UNCHANGED <<connectHist, disconnectHist, queryHist, limitStrategies>>

InitValidate ==
    /\ limitStrategies \in StrategyInputs
    /\ validated = NotValidated
    /\ connection = Descriptor(Absent, Absent, Undefined, Undefined)
    /\ query = TableQuery
    /\ tableRows = 0
    /\ pc = "validate"
    /\ NewClient

NextValidate == Validate

SpecValidate == InitValidate /\ [][NextValidate]_vars

(***************************************************************************)
(* Properties of a request (checked under Spec).                           *)
(***************************************************************************)
\* the request is over: runQuery returned or raised
Done == pc = "done"
\* connect succeeded: the driver opened the request's session
ConnectSucceeded == opened > 0
\* the cap the request resolves
Cap == resolvePositiveNumber(connection.maxrows_override, connection.maxRows)
\* the query is one the code exempts from the cap
Exempted == Includes(query, SystemCatalog)
\* the driver answered the query with rows and columns
AnsweredTabular ==
    Done /\ outcome.status = "returned" /\ driverAnswer.shape = "tabular"

\* C1: in a request whose connect succeeded, disconnect is attempted on every
\* exit path and only after Client.runQuery completed (returned, or raised
\* from the driver, the validator or the rewriter); when runQuery returns or
\* raises, the Client holds no handle and no close is still in flight.
C1_DisconnectOnEveryExit ==
    /\ (Done /\ ConnectSucceeded) =>
           /\ disconnectInvocations >= 1
           /\ client = NULL
           /\ closing = <<>>
    /\ disconnectInvocations > 0 => (~querying /\ primary.status # "none")

\* C1 witness: the rewriter refused the text, and the request still
\* disconnected before raising
C1_Witness ==
    /\ Done /\ ConnectSucceeded
    /\ outcome.status = "raised" /\ outcome.error = LimiterError
    /\ queryCalls = 0
    /\ disconnectInvocations = 1 /\ closeCalls = 1
    /\ client = NULL

\* C2 as stated: with a positive cap, a table of N rows and a driver answer of
\* at most cap + 1 rows, runQuery returns the first min(N, cap) rows in engine
\* order, incomplete exactly when N > cap; whatever the query.
C2_Original ==
    (AnsweredTabular /\ IsPositive(Cap) /\ Len(driverAnswer.rows) <= Cap.v + 1) =>
        outcome.result = QueryResult(TableRows(Min(tableRows, Cap.v)),
                                     tableRows > Cap.v)

\* C2 as amended: the same, for a query that does not mention the system
\* catalog (the query the code rewrites and caps).
C2_CappedEndToEnd ==
    (AnsweredTabular /\ IsPositive(Cap) /\ ~Exempted
        /\ Len(driverAnswer.rows) <= Cap.v + 1) =>
        outcome.result = QueryResult(TableRows(Min(tableRows, Cap.v)),
                                     tableRows > Cap.v)

\* C2 witness: a table larger than the over-asked limit, cut to the cap
C2_Witness ==
    /\ AnsweredTabular /\ ~Exempted
    /\ Cap = Num(2) /\ tableRows = 4
    /\ Len(driverAnswer.rows) = 3
    /\ outcome.result = QueryResult(<<1, 2>>, TRUE)

\* C3 as stated: with a positive cap, every result has at most cap rows,
\* whatever the query and however many rows the driver returned.
C3_Original ==
    (Done /\ outcome.status = "returned" /\ IsPositive(Cap)) =>
        Len(outcome.result.rows) <= Cap.v

\* C3 as amended: with a positive cap, a result has at most cap rows unless
\* the query mentions the system catalog; such a query is returned with every
\* row of the driver's answer.
C3_CapUnlessExempted ==
    (Done /\ outcome.status = "returned" /\ IsPositive(Cap)) =>
        IF Exempted
        THEN outcome.result.rows = driverAnswer.rows
        ELSE Len(outcome.result.rows) <= Cap.v

\* C3 witness: the driver ignored the clause and returned more than cap + 1
\* rows; the result stops at the cap
C3_Witness ==
    /\ AnsweredTabular /\ ~Exempted /\ IsPositive(Cap)
    /\ Len(driverAnswer.rows) > Cap.v + 1
    /\ Len(outcome.result.rows) = Cap.v

\* C4 as stated: with a positive cap, a tabular result is incomplete exactly
\* when the driver's answer held more rows than the cap, whatever the query.
C4_Original ==
    (AnsweredTabular /\ IsPositive(Cap)) =>
        (outcome.result.incomplete <=> Len(driverAnswer.rows) > Cap.v)

\* C4 as amended: that equivalence holds for a query that does not mention the
\* system catalog; for one that does, incomplete is false.
C4_IncompleteIffMoreRows ==
    (AnsweredTabular /\ IsPositive(Cap)) =>
        /\ outcome.result.hasIncomplete
        /\ outcome.result.incomplete <=>
               (~Exempted /\ Len(driverAnswer.rows) > Cap.v)

\* C4 witness: the driver returned exactly cap + 1 rows, and the result says
\* it is incomplete
C4_Witness ==
    /\ AnsweredTabular /\ ~Exempted /\ IsPositive(Cap)
    /\ Len(driverAnswer.rows) = Cap.v + 1
    /\ outcome.result.incomplete

\* the request met no failure of its environment: the rewriter accepted the
\* text and the driver did not fail of its own
NoOutsideFailure ==
    /\ outcome.error # LimiterError
    /\ driverQueryError \notin DriverErrors
    /\ outcome.status = "returned" => driverAnswer.shape = "tabular"

\* C5 as stated: when no cap is resolved, runQuery returns every row the
\* engine has for the query with incomplete = false; the missing cap neither
\* truncates the result nor fails the request.
C5_Claim ==
    (Done /\ ConnectSucceeded /\ Cap = Undefined /\ NoOutsideFailure) =>
        /\ outcome.status = "returned"
        /\ outcome.result = QueryResult(TableRows(tableRows), FALSE)

(***************************************************************************)
(* Properties of the Client driven by a caller (checked under SpecClient). *)
(***************************************************************************)
\* this step is a call of connect
ConnectIsCalled == connectInvocations' = connectInvocations + 1
\* this step is a call of disconnect
DisconnectIsCalled == disconnectInvocations' = disconnectInvocations + 1
\* this step is the end of a disconnect that awaited the driver's close
CloseIsSettled == Len(closing') < Len(closing)
\* no call of the Client is awaiting the driver
Quiescent == connecting = 0 /\ closing = <<>>

\* C6 as stated: every connect after the first on the same Client fails with
\* the usage error, whatever the state: connected, disconnected, or after a
\* first connect that failed.
C6_Original ==
    [][(ConnectIsCalled /\ connectInvocations >= 1 /\ Quiescent) =>
          (ret'.op = "connect" /\ ret'.status = "raised"
              /\ ret'.error = UsageError)]_vars

\* C6 as amended: a connect on a Client that holds a handle fails with the
\* usage error, without calling the driver and leaving the handle; a connect on
\* a Client whose handle is null (never connected, disconnected, or after a
\* connect that failed) is not refused: it calls the driver.
C6_UsageErrorOnlyWhileConnected ==
    [][ConnectIsCalled =>
          IF client # NULL
          THEN /\ ret' = Ret("connect", Raised(UsageError))
               /\ client' = client
               /\ connectCalls' = connectCalls
          ELSE /\ ret' = Ret("connect", Pending)
               /\ connectCalls' = connectCalls + 1
               /\ connecting' = connecting + 1]_vars

\* C6 witness: connected, disconnected, connected again through the driver,
\* and then refused a third connect
C6_Witness ==
    /\ connectInvocations = 3 /\ connectCalls = 2 /\ opened = 2
    /\ disconnectInvocations = 1 /\ Quiescent
    /\ ret = Ret("connect", Raised(UsageError))
    /\ client = 2

\* C7: disconnect never raises and ends with this.client = null: with no
\* handle it ends at once without calling the driver's close; with a handle
\* whose close fails it logs the failure and still ends closed.
C7_DisconnectNeverRaises ==
    [][/\ DisconnectIsCalled =>
             /\ ret'.op = "disconnect" /\ ret'.status # "raised"
             /\ client = NULL =>
                    /\ ret'.status = "returned"
                    /\ client' = NULL
                    /\ closeCalls' = closeCalls /\ closing' = closing
             /\ client # NULL =>
                    /\ ret'.status = "none"
                    /\ closeCalls' = closeCalls + 1
       /\ CloseIsSettled =>
             /\ ret' = Ret("disconnect", Returned(Void))
             /\ client' = NULL
             /\ closeErrorsLogged' \in {closeErrorsLogged, closeErrorsLogged + 1}
             /\ closeErrorsLogged' > closeErrorsLogged => sessions' = sessions]_vars

\* C7 witness: a disconnect whose close failed and was logged, and another on
\* the Client already closed, which called no close
C7_Witness ==
    /\ disconnectInvocations = 2 /\ closeCalls = 1 /\ closeErrorsLogged = 1
    /\ Quiescent
    /\ ret = Ret("disconnect", Returned(Void))
    /\ client = NULL

(***************************************************************************)
(* Properties of a request, continued (checked under Spec).                *)
(***************************************************************************)
\* what Client.runQuery had to produce from what the driver did
PrimaryOutcome ==
    IF driverQueryError # NoError
    THEN Raised(NormalizeQueryError(driverQueryError))
    ELSE IF queryCalls = 0
    THEN Raised(LimiterError)
    ELSE Returned(Materialize(driverAnswer, ~Exempted, Cap))

\* C8: a close that fails never replaces the request's primary outcome: the
\* request returns the query's result, or raises the query's (normalised)
\* error, also when the driver's close failed.
C8_CloseFailureNeverMasks ==
    (Done /\ ConnectSucceeded /\ closeErrorsLogged > 0) =>
        /\ outcome = PrimaryOutcome
        /\ closeErrorsLogged = 1

\* C8 witness: the close failed after a query that returned rows
C8_Witness ==
    /\ Done /\ closeErrorsLogged = 1
    /\ outcome.status = "returned"
    /\ Len(outcome.result.rows) > 0
    /\ sessions # {}

\* C9 as stated: when the driver's connect fails, connect raises an error whose
\* message is the first sub-error's message if the failure carries an array of
\* sub-errors (of any length), and the original error otherwise.
C9_Claim ==
    (Done /\ ~ConnectSucceeded) =>
        /\ outcome.status = "raised"
        /\ IF driverConnectError.isOdbc
           THEN /\ Len(driverConnectError.odbcErrors) >= 1
                /\ outcome.error = Error(driverConnectError.odbcErrors[1])
           ELSE outcome.error = driverConnectError

\* the messages joined with "; ", built from the last one backwards
RECURSIVE JoinedBySemicolon(_)
JoinedBySemicolon(msgs) ==
    IF Len(msgs) = 0 THEN ""
    ELSE IF Len(msgs) = 1 THEN msgs[1]
    ELSE JoinedBySemicolon(SubSeq(msgs, 1, Len(msgs) - 1))
             \o "; " \o msgs[Len(msgs)]

\* C10: when the driver fails the query, runQuery raises one error whose
\* message is the sub-errors' messages joined in order with "; " if the
\* failure carries an array of sub-errors, and the original error otherwise.
C10_QueryErrorJoined ==
    (Done /\ driverQueryError # NoError) =>
        /\ outcome.status = "raised"
        /\ IF driverQueryError.isOdbc
           THEN outcome.error = Error(JoinedBySemicolon(driverQueryError.odbcErrors))
           ELSE outcome.error = driverQueryError
        /\ driverQueryError.odbcErrors = <<"auth failed", "retry later">> =>
               outcome.error.message = "auth failed; retry later"

\* C10 witness: the two-message payload raised as one message
C10_Witness ==
    /\ Done
    /\ driverQueryError = OdbcError("[odbc] Error", <<"auth failed", "retry later">>)
    /\ outcome = Raised(Error("auth failed; retry later"))

\* the driver resolved the request's query (it did not reject it)
QueryResolved == queryCalls = 1 /\ ~querying /\ driverQueryError = NoError
\* Client.runQuery was entered
RunQueryEntered ==
    \/ pc \in {"tryDisconnect", "catchDisconnect"}
    \/ (pc = "done" /\ ConnectSucceeded)
    \/ (pc = "runQuery" /\ ret.op = "runQuery")

C12_Claim ==
    (Done /\ QueryResolved /\ driverAnswer.shape # "tabular") =>
        /\ outcome.status = "returned"
        /\ outcome.result.rows = <<>>
        /\ outcome.result.hasIncomplete
        /\ outcome.result.incomplete = FALSE

\* the FETCH FIRST clause for a cap, as text
FetchClause(n) == <<"FETCH", "FIRST", ToString(n), "ROWS", "ONLY">>

\* C13: a query that mentions the system catalog is never rewritten: the
\* limiter is not called and the text sent to the driver is the caller's
\* text; every other query goes through the limiter (the strategy list
\* being non-empty), and what is sent is the limiter's text.
C13_ExemptedNeverRewritten ==
    /\ Exempted => limiterCaps = <<>>
    /\ (Exempted /\ queryCalls > 0) => sentQuery = query
    /\ (~Exempted /\ RunQueryEntered) => Len(limiterCaps) = 1
    /\ (~Exempted /\ queryCalls > 0) =>
           /\ sentQuery # query
           /\ SubSeq(sentQuery, 1, Len(query)) = query
           /\ IsPositive(Cap) => sentQuery = query \o FetchClause(Cap.v + 1)

\* C13 witness: the schema query went to the driver as the caller wrote it,
\* though a cap was resolved
C13_Witness ==
    /\ Done /\ QueryResolved
    /\ query = SchemaQuery /\ sentQuery = SchemaQuery
    /\ IsPositive(Cap)

\* C14 as stated: every cap passed to the rewriter is a positive integer, the
\* resolved cap plus one, whatever the resolver returned (a positive integer
\* or none).
C14_Claim ==
    \A i \in 1..Len(limiterCaps) :
        /\ IsNum(limiterCaps[i])
        /\ limiterCaps[i].v > 0
        /\ IsPositive(Cap) => limiterCaps[i] = Num(Cap.v + 1)

\* C15: within a request nothing is retried: the driver's connect is called
\* once, its query at most once and only after connect succeeded; when
\* connect fails no query runs, nothing is closed, and the error connect
\* raised is what the request raises.
C15_NothingRetried ==
    /\ connectInvocations <= 1 /\ connectCalls <= 1 /\ queryCalls <= 1
    /\ opened <= 1
    /\ pc # "connect" => connectCalls = 1
    /\ queryCalls = 1 => ConnectSucceeded
    /\ (Done /\ ~ConnectSucceeded) =>
           /\ queryCalls = 0 /\ limiterCaps = <<>>
           /\ disconnectInvocations = 0
           /\ driverConnectError # NoError
           /\ ret.op = "connect"
           /\ outcome = Raised(ret.error)

\* C15 witness: connect failed once and the request ended there
C15_Witness ==
    /\ Done /\ ~ConnectSucceeded
    /\ connectCalls = 1 /\ queryCalls = 0
    /\ outcome = Raised(Error("auth failed"))

(***************************************************************************)
(* Properties of cleanAndValidateLimitStrategies (checked under            *)
(* SpecValidate).                                                          *)
(***************************************************************************)
\* what an entry is once trimmed and lower-cased
Cleaned(entry) ==
    CASE entry = <<"f", "e", "t", "c", "h">> -> "fetch"
      [] entry = <<" ", "F", "e", "t", "c", "h", " ">> -> "fetch"
      [] entry = <<"F", "E", "T", "C", "H">> -> "fetch"
      [] entry = <<>> -> ""
      [] entry = <<" ">> -> ""
      [] entry = <<"l", "i", "m", "i", "t">> -> "limit"
      [] entry = <<"T", "O", "P", "\t">> -> "top"

\* the cleaned entries that are left, in input order
RECURSIVE Kept(_)
Kept(es) ==
    IF es = <<>> THEN <<>>
    ELSE IF Cleaned(Head(es)) = "" THEN Kept(Tail(es))
    ELSE <<Cleaned(Head(es))>> \o Kept(Tail(es))

\* what the call has to give for a list written from es
ExpectedValidation(es) ==
    LET kept == Kept(es)
        bad == {i \in 1..Len(kept) : kept[i] # "fetch"}
    IN  IF bad = {}
        THEN [threw |-> FALSE, strategies |-> kept, error |-> NoError]
        ELSE LET first == CHOOSE i \in bad : \A j \in bad : i <= j
             IN  [threw |-> TRUE, strategies |-> <<>>,
                  error |-> Error("Limit strategy \"" \o kept[first]
                                  \o "\" not allowed. Must be one of \"fetch\"")]

\* C16: cleanAndValidateLimitStrategies splits on commas, trims and
\* lower-cases each entry and drops the empty ones; it returns the cleaned
\* list when every entry is "fetch", and otherwise throws an error naming the
\* first entry, in input order, that is not allowed, and listing the allowed
\* set; an absent or empty argument gives the empty list.
C16_CleanAndValidate ==
    pc = "validated" =>
        /\ \A es \in SeqsUpTo(StrategyEntries, MaxEntries) :
               limitStrategies = Text(CommaSeparated(es)) =>
                   validated = ExpectedValidation(es)
        /\ limitStrategies \in {NoText, Text(<<>>)} =>
               validated = [threw |-> FALSE, strategies |-> <<>>, error |-> NoError]

\* C16 witness: " Fetch ,limit,TOP\t" is refused for "limit", the first of
\* its two entries that are not allowed
C16_Witness ==
    /\ pc = "validated"
    /\ limitStrategies = Text(<<" ", "F", "e", "t", "c", "h", " ", ",",
                                "l", "i", "m", "i", "t", ",",
                                "T", "O", "P", "\t">>)
    /\ validated.threw
    /\ validated.error.message =
           "Limit strategy \"limit\" not allowed. Must be one of \"fetch\""

(***************************************************************************)
(* Properties of connect over every descriptor (checked under SpecConnect).*)
(***************************************************************************)
\* a field of the descriptor, or the default that stands for it
OrDefault(field, default) == IF field = Absent THEN default ELSE field
\* a key and its value, if the value is present
IfPresent(key, field) == IF field = Absent THEN "" ELSE key \o field

\* C17: the connection string carries the user id only if a username is
\* present and the password only if a password is present; host defaults to
\* localhost and domain to composite; a missing credential is never an error
\* of connect itself: a connect on a Client with no handle reaches the driver,
\* and connect raises only the usage error or what the driver's failure gives.
C17_CredentialsOnlyIfPresent ==
    /\ connectInvocations > 0 =>
           /\ connectCalls > 0
           /\ cn = "Driver=" \o odbc_driver_path
                   \o ";host=" \o OrDefault(connection.host, "localhost")
                   \o ";port=" \o OrDefault(connection.port, "9401")
                   \o ";datasource=" \o connection.database
                   \o ";domain=" \o OrDefault(connection.domain, "composite")
                   \o IfPresent(";Uid=", connection.username)
                   \o IfPresent(";Pwd=", connection.password)
    /\ (ret.op = "connect" /\ ret.status = "raised") =>
           \/ (ret.error = UsageError /\ client # NULL)
           \/ (driverConnectError # NoError
                 /\ ret.error = NormalizeConnectError(driverConnectError))

\* C17 witness: a descriptor with a password and nothing else connected
C17_Witness ==
    /\ connection.username = Absent /\ connection.password = "secret"
    /\ connection.host = Absent /\ connection.domain = Absent
    /\ connection.port = Absent
    /\ cn = "Driver=/drivers/linux/libcomposite86_x64.so;host=localhost;port=9401;datasource=db1;domain=composite;Pwd=secret"
    /\ client = 1 /\ ret = Ret("connect", Returned(Void))

(***************************************************************************)
(* Properties of one Client under any interleaving of connect and          *)
(* disconnect (checked under SpecClient).                                  *)
(***************************************************************************)
\* C18 as stated: whatever the interleaving of connect and disconnect on one
\* Client, every session the driver holds open is the one the Client's handle
\* refers to, so at most one is open and a closed Client owns none (a session
\* whose close failed at the driver set aside).
C18_Claim ==
    closeErrorsLogged = 0 =>
        /\ sessions \subseteq {client}
        /\ Cardinality(sessions) <= 1

\* this step is a connect that fails: refused at the call, or rejected by the
\* driver
ConnectFails ==
    /\ ConnectIsCalled \/ connecting' < connecting
    /\ ret'.op = "connect" /\ ret'.status = "raised"

\* C20: a connect that fails leaves the handle as it was, and opens and closes
\* no session: a connect the driver rejected on a Client never connected
\* leaves the handle null, and a connect refused with the usage error leaves
\* the live handle the Client held.
C20_FailedConnectKeepsHandle ==
    [][ConnectFails =>
          /\ client' = client
          /\ sessions' = sessions
          /\ opened = 0 => client' = NULL
          /\ ret'.error = UsageError =>
                 (ConnectIsCalled /\ client' # NULL /\ connecting' = connecting)]_vars

\* C20 witness: a first connect the driver rejected, a second that connected,
\* and a third refused with the handle of the second still held
C20_Witness ==
    /\ connectInvocations = 3 /\ connectCalls = 2 /\ opened = 1
    /\ driverConnectError # NoError
    /\ disconnectInvocations = 0 /\ Quiescent
    /\ ret = Ret("connect", Raised(UsageError))
    /\ client = 1 /\ sessions = {1}

(***************************************************************************)
(* Properties of a request, continued (checked under Spec).                *)
(***************************************************************************)
\* C19: in a request whose connect succeeded the driver's close is called
\* exactly once, on the request's session: never twice, and once on every
\* path by the time the request ends; when connect failed close is never
\* called.
C19_CloseExactlyOnce ==
    /\ closeCalls <= 1
    /\ closeCalls = 1 => ConnectSucceeded
    /\ \A i \in 1..Len(closing) : closing[i] = opened
    /\ Done => closeCalls = (IF ConnectSucceeded THEN 1 ELSE 0)

\* C19 witness: the query returned rows and the request ended after one close
\* that succeeded
C19_Witness ==
    /\ Done /\ ConnectSucceeded
    /\ outcome.status = "returned" /\ Len(outcome.result.rows) > 0
    /\ closeCalls = 1 /\ closeErrorsLogged = 0
    /\ disconnectInvocations = 1
    /\ sessions = {} /\ client = NULL

=============================================================================
